---- MODULE Spec2Model ----
(***************************************************************************)
(* A model of the ts-chat server: the Room control loop (room.go, the      *)
(* draft with context/done), the Client session (client.go, the draft with *)
(* rate limiting and fullRoomRejection) and the Server accept/stop         *)
(* lifecycle (server.go).                                                  *)
(*                                                                         *)
(* Goroutines are processes with a program counter.  An unbuffered channel *)
(* send/receive pair is one joint step of the sender and the receiver.     *)
(* sync.RWMutex and sync.Mutex block exactly as Go's do: RLock waits while *)
(* the write lock is held, whoever holds it.                               *)
(*                                                                         *)
(* Text read from a connection is a sequence of one-character strings so   *)
(* that trimming, prefix tests, splitting and lower-casing are computed;   *)
(* nicknames and message bodies are strings built from it.                 *)
(***************************************************************************)
EXTENDS Integers, Sequences, FiniteSets, Bags, TLC

\* ------------------------------------------------------------------ bounds

\* Connections the environment opens during a run.
NumSessions == 2
\* Lines the Handle loops read in total during a run.
MaxLines == 1
\* Room.MaxUsers is configured (any int flag value); the model tries 0..MaxCapacity.
MaxCapacity == 1
\* Lines one Handle loop reads in the specification of the line checks.
MaxRateLines == 7
\* The clock of the specification of the line checks runs from 0 to MaxTime seconds.
MaxTime == 6
\* Lines one Handle loop reads in the specification of the reported errors.
MaxCmdLines == 7
\* The clock advances in steps of TickSeconds seconds.
TickSeconds == 3
\* Lines one Handle loop reads in the specification of the reported wait.
MaxWaitLines == 7
\* The clock counts ticks; Second ticks make one second (time.Second counts
\* nanoseconds, the model's tick is 1/Second of a second).
Second == 25

\* --------------------------------------------------------- program constants

MaxMessageLength == 1000
MessageRateLimit == 5
RateLimitWindow == 5 * Second

Sessions == 1..NumSessions

\* ------------------------------------------------------------------- text

Space == {" ", "\t", "\n", "\r"}

RECURSIVE TrimLeft(_)
TrimLeft(s) ==
  IF s # <<>> /\ Head(s) \in Space THEN TrimLeft(Tail(s)) ELSE s

RECURSIVE TrimRight(_)
TrimRight(s) ==
  IF s # <<>> /\ s[Len(s)] \in Space THEN TrimRight(SubSeq(s, 1, Len(s) - 1)) ELSE s

\* strings.TrimSpace
TrimSpace(s) == TrimRight(TrimLeft(s))

\* strings.HasPrefix
HasPrefix(s, p) == Len(s) >= Len(p) /\ SubSeq(s, 1, Len(p)) = p

LowerChar(c) ==
  CASE c = "S" -> "s" [] c = "Y" -> "y" [] c = "T" -> "t" [] c = "E" -> "e"
    [] c = "M" -> "m" [] c = "Q" -> "q" [] c = "U" -> "u" [] c = "I" -> "i"
    [] c = "W" -> "w" [] c = "H" -> "h" [] c = "O" -> "o" [] c = "A" -> "a"
    [] c = "B" -> "b" [] c = "X" -> "x" [] c = "L" -> "l" [] c = "P" -> "p"
    [] OTHER -> c

\* strings.ToLower
ToLower(s) == [i \in 1..Len(s) |-> LowerChar(s[i])]

\* Index of the first space of s, 0 when there is none.
IndexSpace(s, i) ==
  LET at == {k \in i..Len(s) : s[k] = " "}
  IN IF at = {} THEN 0 ELSE CHOOSE k \in at : \A j \in at : k <= j

\* strings.SplitN(s, " ", 2)
SplitN2(s) ==
  LET k == IndexSpace(s, 1)
  IN IF k = 0 THEN <<s>> ELSE <<SubSeq(s, 1, k - 1), SubSeq(s, k + 1, Len(s))>>

\* The Go string of a character sequence.
RECURSIVE Implode(_)
Implode(s) ==
  IF s = <<>> THEN ""
  ELSE IF Len(s) = 1 THEN s[1]
  ELSE Implode(SubSeq(s, 1, Len(s) \div 2)) \o Implode(SubSeq(s, Len(s) \div 2 + 1, Len(s)))

\* bufio.Reader.ReadString('\n') returns the line with its delimiter.
ReadString(line) == line \o <<"\r", "\n">>

\* Lines a client types at the nickname prompt.
NickLines ==
  { <<>>,
    <<" ">>,
    <<"S", "y", "s", "t", "e", "m">>,
    <<"s", "Y", "S", "t", "e", "m", " ">>,
    <<"a">>,
    <<" ", "a", " ">>,
    <<"b">> }

\* Lines a client types once it is in the chat.
HandleLines ==
  { <<>>,
    <<"h", "i">>,
    <<"/", "q", "u", "i", "t">>,
    <<"/", "w", "h", "o">>,
    <<"/", "h", "e", "l", "p">>,
    <<"/", "m", "e", " ", "x">>,
    <<"/", "x">> }

\* n times the character c.
Repeat(c, n) == [i \in 1..n |-> c]

\* Lines a client types to try the length check and the rate check.
RateLines ==
  { <<"h", "i">>,
    <<"/", "q", "u", "i", "t">>,
    <<"/", "Q", "U", "I", "T">>,
    Repeat("y", MaxMessageLength),
    <<" ">> \o Repeat("y", MaxMessageLength + 1) }

\* Lines a client types to try the commands and the errors Handle reports.
CmdLines ==
  { <<"h", "i">>,
    <<"/", "m", "e">>,
    <<"/", "M", "e", " ", "x">>,
    <<"/">> \o Repeat("y", MaxMessageLength - 1),
    <<" ">> \o Repeat("y", MaxMessageLength + 1) }

\* ------------------------------------------------------------------ state

VARIABLES
  MaxUsers,           \* Room.MaxUsers
  clients,            \* Room.clients: nickname -> session
  mu,                 \* Room.mu: "free" or "locked" (write-locked)
  runPc,              \* Room.run: "select", "addClient", "removeClient", "broadcastMessage",
                      \* "exited" (returned, r.done closed)
  runClient,          \* the client received from r.join / r.leave
  runMsg,             \* the message being broadcast
  runCaller,          \* who called broadcastMessage: "run", "addClient", "removeClient"
  pc,                 \* per session: where its handleConnection goroutine is
  conn,               \* per session: "none", "open", "eof" (peer gone), "closed" (Close called)
  Nickname,           \* Client.Nickname
  nickname,           \* requestNickname's local: the trimmed candidate
  fullRoomRejection,  \* Client.fullRoomRejection
  messageTimestamps,  \* Client.messageTimestamps
  message,            \* Handle's local: the Message handed to Room.Broadcast
  readers,            \* per session: the reader goroutines Handle started, each "reading",
                      \* or holding its result: "line", "eof", "error"
  pending,            \* per session: bag of Messages whose write goroutine waits for c.mu
  cmu,                \* per session: Client.mu, "free" or "locked"
  writing,            \* per session: bag of Messages whose write goroutine is between
                      \* c.mu.Lock() and the return of WriteString and Flush
  ctxDone,            \* Server.ctx is cancelled
  listenerClosed,     \* Server.listener is closed
  connections,        \* Server.connections
  wg,                 \* Server.wg counter
  acceptPc,           \* acceptConnections: "select", "accept", "logged", "done"
  stopPc,             \* Server.Stop: "idle", "close", "wait", "returned"
  now,                \* time.Now(), in seconds
  nlines,             \* lines read by Handle loops so far
  joined,             \* history: sessions addClient admitted and removeClient has not removed
  handled,            \* history: sessions whose Handle has started
  leaveRequests,      \* history: per session, the Room.Leave calls made for it
  dispatched,         \* history: per session, the Messages the run loop handed to its
                      \* sendMessage, in order
  broadcasts,         \* history: the Broadcast requests the run loop has processed
  rctxDone,           \* Room.ctx is cancelled
  roomStopPc,         \* Room.Stop: "idle", "wait" (at <-r.done), "returned" (channels closed)
  inflight,           \* history: per session, the hand-off it was blocked at when
                      \* Room.Stop cancelled the context, "none" if it was at none
  accepted            \* history: per session, the times of the lines checkRateLimit accepted

roomVars == <<MaxUsers, clients, mu, runPc, runClient, runMsg, runCaller>>
clientVars == <<pc, conn, Nickname, nickname, fullRoomRejection, messageTimestamps,
                message, readers, pending>>
serverVars == <<ctxDone, listenerClosed, connections, wg, acceptPc, stopPc>>
auxVars == <<now, nlines, joined, handled, leaveRequests>>
histVars == <<dispatched, broadcasts>>
writeVars == <<cmu, writing>>
stopVars == <<rctxDone, roomStopPc, inflight>>
vars == <<roomVars, clientVars, serverVars, auxVars, histVars, writeVars, stopVars, accepted>>

NoMessage == [From |-> "", Content |-> "", Timestamp |-> 0, IsSystem |-> FALSE, IsAction |-> FALSE]

Init ==
  /\ MaxUsers \in 0..MaxCapacity
  /\ clients = <<>>
  /\ mu = "free"
  /\ runPc = "select"
  /\ runClient = 0
  /\ runMsg = NoMessage
  /\ runCaller = "run"
  /\ pc = [s \in Sessions |-> "idle"]
  /\ conn = [s \in Sessions |-> "none"]
  /\ Nickname = [s \in Sessions |-> ""]
  /\ nickname = [s \in Sessions |-> ""]
  /\ fullRoomRejection = [s \in Sessions |-> FALSE]
  /\ messageTimestamps = [s \in Sessions |-> <<>>]
  /\ message = [s \in Sessions |-> NoMessage]
  /\ readers = [s \in Sessions |-> <<>>]
  /\ pending = [s \in Sessions |-> EmptyBag]
  /\ cmu = [s \in Sessions |-> "free"]
  /\ writing = [s \in Sessions |-> EmptyBag]
  /\ ctxDone = FALSE
  /\ listenerClosed = FALSE
  /\ connections = {}
  /\ wg = 1
  /\ acceptPc = "select"
  /\ stopPc = "idle"
  /\ now = 0
  /\ nlines = 0
  /\ joined = {}
  /\ handled = {}
  /\ leaveRequests = [s \in Sessions |-> 0]
  /\ dispatched = [s \in Sessions |-> <<>>]
  /\ broadcasts = 0
  /\ rctxDone = FALSE
  /\ roomStopPc = "idle"
  /\ inflight = [s \in Sessions |-> "none"]
  /\ accepted = [s \in Sessions |-> <<>>]

\* ------------------------------------------------------------- messages

SystemMessage(content, t) ==
  [From |-> "System", Content |-> content, Timestamp |-> t, IsSystem |-> TRUE, IsAction |-> FALSE]

ChatMessage(from, content, t) ==
  [From |-> from, Content |-> content, Timestamp |-> t, IsSystem |-> FALSE, IsAction |-> FALSE]

ActionMessage(from, content, t) ==
  [From |-> from, Content |-> content, Timestamp |-> t, IsSystem |-> FALSE, IsAction |-> TRUE]

\* ui.FormatSystemMessage, FormatActionMessage, FormatSelfMessage and
\* FormatUserMessage: the text inside the style's rendering.
FormatSystemMessage(content) == "[System] " \o content

FormatActionMessage(username, action) == "* " \o username \o " " \o action

FormatSelfMessage(content, timestamp) == "[" \o timestamp \o "] You: " \o content

FormatUserMessage(username, content, timestamp) ==
  "[" \o timestamp \o "] " \o username \o ": " \o content

\* msg.Timestamp.Format("15:04:05"): the time of day in whole seconds.
FormatClock(t) == ToString(t \div Second)

\* sendMessage: the line it writes to the client whose nickname is nick.
Formatted(nick, msg) ==
  IF msg.IsSystem THEN FormatSystemMessage(msg.Content)
  ELSE IF msg.IsAction THEN FormatActionMessage(msg.From, msg.Content)
  ELSE IF msg.From = nick THEN FormatSelfMessage(msg.Content, FormatClock(msg.Timestamp))
  ELSE FormatUserMessage(msg.From, msg.Content, FormatClock(msg.Timestamp))

\* c.sendMessage(msg): starts the goroutine that will write msg to c.  On a
\* connection that is not open the goroutine can only fail and log, so it is
\* not kept.
SendMessage(p, c, msg) ==
  IF conn[c] = "open" THEN [p EXCEPT ![c] = @ (+) SetToBag({msg})] ELSE p

\* c.sendSystemMessage for each text of texts, in order.
RECURSIVE SendSystemMessages(_, _, _, _)
SendSystemMessages(p, c, texts, t) ==
  IF texts = <<>> THEN p
  ELSE SendSystemMessages(SendMessage(p, c, SystemMessage(Head(texts), t)), c, Tail(texts), t)

\* ------------------------------------------------------------------ Room

\* sync.RWMutex: Lock waits for the write lock and for every reader to leave;
\* the readers of this program (IsNicknameAvailable, GetUserList, the body of
\* broadcastMessage) hold it for one step, so only the write lock is state.
CanLock(m) == m = "free"

\* RLock waits while the write lock is held, also when the caller holds it.
CanRLock(m) == m = "free"

\* A capacity test that lets one client too many in; the capacity property
\* has to tell it from addClient's.
RoomFullStrict(cl, max) == Cardinality(DOMAIN cl) > max

\* addClient's capacity test.
RoomFull(cl, max) == Cardinality(DOMAIN cl) >= max

\* An assignment that stores nothing; the membership property has to tell it
\* from addClient's.
PutNothing(cl, nick, c) == cl

\* r.clients[nick] = c
PutClient(cl, nick, c) == [n \in DOMAIN cl \cup {nick} |-> IF n = nick THEN c ELSE cl[n]]

\* delete(r.clients, nick)
DeleteClient(cl, nick) == [n \in DOMAIN cl \ {nick} |-> cl[n]]

\* A test that finds every nickname; the property of an ineffective Leave has
\* to tell it from removeClient's.
ExistsAlways(cl, nick) == TRUE

\* removeClient's test before it deletes: _, exists := r.clients[nick]
Exists(cl, nick) == nick \in DOMAIN cl

\* A range over every session, member or not; the broadcast property has to
\* tell it from broadcastMessage's.
EverySession(cl) == Sessions

\* The clients broadcastMessage ranges over: the values of the map.  A session
\* has one nickname and joins once, so no client is the value of two keys.
Recipients(cl) == {cl[n] : n \in DOMAIN cl}

\* The goroutines broadcastMessage starts: one sendMessage per map entry.
Dispatch(p, cl, msg) ==
  [s \in Sessions |-> IF s \in Recipients(cl) THEN SendMessage(p, s, msg)[s] ELSE p[s]]

\* The record of those sendMessage calls.
Dispatched(d, cl, msg) ==
  [s \in Sessions |-> IF s \in Recipients(cl) THEN Append(d[s], msg) ELSE d[s]]

\* Room.Join: the run loop receives the client from r.join.
Join(s) ==
  /\ pc[s] = "join"
  /\ runPc = "select"
  /\ runPc' = "addClient"
  /\ runClient' = s
  /\ pc' = [pc EXCEPT ![s] = "checkFull"]
  /\ UNCHANGED <<MaxUsers, clients, mu, runMsg, runCaller>>
  /\ UNCHANGED <<conn, Nickname, nickname, fullRoomRejection, messageTimestamps,
                 message, readers, pending>>
  /\ UNCHANGED <<serverVars, auxVars>>
  /\ UNCHANGED histVars
  /\ UNCHANGED <<stopVars, accepted>>
  /\ UNCHANGED writeVars

\* Room.addClient, up to its call of broadcastMessage.
AddClient ==
  /\ runPc = "addClient"
  /\ CanLock(mu)
  /\ LET c == runClient IN
     IF RoomFull(clients, MaxUsers)
     THEN /\ pending' = SendMessage(pending, c,
                          SystemMessage("Sorry, the room is full. Try again later.", now))
          /\ dispatched' = [dispatched EXCEPT ![c] =
                              Append(@, SystemMessage("Sorry, the room is full. Try again later.", now))]
          /\ fullRoomRejection' = [fullRoomRejection EXCEPT ![c] = TRUE]
          /\ runPc' = "select"
          /\ runClient' = 0
          /\ UNCHANGED <<clients, mu, runMsg, runCaller, joined>>
     ELSE /\ clients' = PutClient(clients, Nickname[c], c)
          /\ mu' = "locked"
          /\ runMsg' = SystemMessage(Nickname[c] \o " has joined the room", now)
          /\ runCaller' = "addClient"
          /\ runPc' = "broadcastMessage"
          /\ joined' = joined \cup {c}
          /\ UNCHANGED <<runClient, pending, fullRoomRejection, dispatched>>
  /\ UNCHANGED <<MaxUsers, broadcasts>>
  /\ UNCHANGED <<stopVars, accepted>>
  /\ UNCHANGED <<pc, conn, Nickname, nickname, messageTimestamps, message, readers>>
  /\ UNCHANGED <<serverVars, now, nlines, handled, leaveRequests>>
  /\ UNCHANGED writeVars

\* Room.removeClient, up to its call of broadcastMessage.
RemoveClient ==
  /\ runPc = "removeClient"
  /\ CanLock(mu)
  /\ LET c == runClient IN
     IF Exists(clients, Nickname[c])
     THEN /\ clients' = DeleteClient(clients, Nickname[c])
          /\ mu' = "locked"
          /\ runMsg' = SystemMessage(Nickname[c] \o " has left the room", now)
          /\ runCaller' = "removeClient"
          /\ runPc' = "broadcastMessage"
          /\ joined' = joined \ {c}
          /\ UNCHANGED runClient
     ELSE /\ runPc' = "select"
          /\ runClient' = 0
          /\ UNCHANGED <<clients, mu, runMsg, runCaller, joined>>
  /\ UNCHANGED MaxUsers
  /\ UNCHANGED clientVars
  /\ UNCHANGED <<serverVars, now, nlines, handled, leaveRequests>>
  /\ UNCHANGED histVars
  /\ UNCHANGED <<stopVars, accepted>>
  /\ UNCHANGED writeVars

\* Room.broadcastMessage; on its return addClient and removeClient unlock.
BroadcastMessage ==
  /\ runPc = "broadcastMessage"
  /\ CanRLock(mu)
  /\ pending' = Dispatch(pending, clients, runMsg)
  /\ dispatched' = Dispatched(dispatched, clients, runMsg)
  /\ broadcasts' = IF runCaller = "run" THEN broadcasts + 1 ELSE broadcasts
  /\ mu' = IF runCaller = "run" THEN mu ELSE "free"
  /\ runPc' = "select"
  /\ runClient' = 0
  /\ runMsg' = NoMessage
  /\ runCaller' = "run"
  /\ UNCHANGED <<MaxUsers, clients>>
  /\ UNCHANGED <<pc, conn, Nickname, nickname, fullRoomRejection, messageTimestamps,
                 message, readers>>
  /\ UNCHANGED <<serverVars, auxVars>>
  /\ UNCHANGED writeVars
  /\ UNCHANGED <<stopVars, accepted>>

\* ---------------------------------------------------------------- Client

\* Client.write and the write goroutine of sendMessage succeed on an open connection.
WriteOk(s) == conn[s] = "open"

\* A lock that never waits; the property of serialized writes has to tell it
\* from Client.mu.
CanLockAlways(m) == TRUE

\* c.mu.Lock() of Client.write and of sendMessage's write goroutine: waits
\* while c.mu is locked.
CanLockClient(m) == m = "free"

SystemLower == <<"s", "y", "s", "t", "e", "m">>
Slash == <<"/">>
QuitPrefix == <<"/", "q", "u", "i", "t">>
CmdWho == <<"/", "w", "h", "o">>
CmdMe == <<"/", "m", "e">>
CmdHelp == <<"/", "h", "e", "l", "p">>

\* handleConnection returns for session s: its deferred calls deregister the
\* connection, close it and call wg.Done.  The write goroutines waiting for
\* the connection or writing to it can only fail on it from here on, and log.
Returns(s) ==
  /\ connections' = connections \ {s}
  /\ conn' = [conn EXCEPT ![s] = "closed"]
  /\ pending' = [pending EXCEPT ![s] = EmptyBag]
  /\ cmu' = [cmu EXCEPT ![s] = "free"]
  /\ writing' = [writing EXCEPT ![s] = EmptyBag]
  /\ wg' = wg - 1
  /\ pc' = [pc EXCEPT ![s] = "done"]

\* The top of Handle's loop: on ctx.Done Handle returns and its deferred
\* room.Leave is called; otherwise a reader goroutine is started and Handle
\* waits in its inner select.
TopPc == IF ctxDone THEN "leave" ELSE "wait"
TopReaders(rs) == IF ctxDone THEN rs ELSE Append(rs, "reading")
TopLeaveRequests(n) == IF ctxDone THEN n + 1 ELSE n

\* Room.IsNicknameAvailable
Available(cl, nick) == nick \notin DOMAIN cl

\* A test for the reserved nickname that minds the case; the nickname
\* property has to tell it from requestNickname's.
ReservedExact(nick) == nick = SystemLower

\* requestNickname's test for the reserved nickname.
Reserved(nick) == ToLower(nick) = SystemLower

\* requestNickname: the prompt is written and a line is read, trimmed and
\* checked for empty and reserved.  A failed write or read ends NewClient.
ReadNickname(s) ==
  /\ pc[s] = "readNickname"
  /\ \/ /\ conn[s] = "open"
        /\ CanLockClient(cmu[s])
        /\ UNCHANGED writeVars
        /\ \E line \in NickLines :
             LET nick == TrimSpace(ReadString(line)) IN
             /\ nickname' = [nickname EXCEPT ![s] = Implode(nick)]
             /\ IF nick = <<>> \/ Reserved(nick)
                THEN UNCHANGED pc
                ELSE pc' = [pc EXCEPT ![s] = "isAvailable"]
        /\ UNCHANGED <<conn, pending, connections, wg>>
     \/ /\ conn[s] # "open"
        /\ Returns(s)
        /\ nickname' = [nickname EXCEPT ![s] = ""]
  /\ UNCHANGED <<Nickname, fullRoomRejection, messageTimestamps, message, readers>>
  /\ UNCHANGED <<ctxDone, listenerClosed, acceptPc, stopPc>>
  /\ UNCHANGED <<roomVars, auxVars>>
  /\ UNCHANGED histVars
  /\ UNCHANGED <<stopVars, accepted>>

\* requestNickname: the availability check under RLock; a taken nickname is
\* reported and prompted for again.
IsNicknameAvailable(s) ==
  /\ pc[s] = "isAvailable"
  /\ CanRLock(mu)
  /\ IF Available(clients, nickname[s])
     THEN /\ Nickname' = [Nickname EXCEPT ![s] = nickname[s]]
          /\ pc' = [pc EXCEPT ![s] = "join"]
     ELSE /\ pc' = [pc EXCEPT ![s] = "readNickname"]
          /\ UNCHANGED Nickname
  /\ nickname' = [nickname EXCEPT ![s] = ""]
  /\ UNCHANGED <<conn, fullRoomRejection, messageTimestamps, message, readers, pending>>
  /\ UNCHANGED <<roomVars, serverVars, auxVars>>
  /\ UNCHANGED histVars
  /\ UNCHANGED <<stopVars, accepted>>
  /\ UNCHANGED writeVars

\* NewClient after room.Join returned: client.fullRoomRejection is read; a
\* rejected client is closed; otherwise the welcome is written and, if that
\* succeeds, NewClient returns and Handle starts.
CheckFull(s) ==
  /\ pc[s] = "checkFull"
  /\ fullRoomRejection[s] \/ CanLockClient(cmu[s])
  /\ IF fullRoomRejection[s]
     THEN /\ Returns(s)
          /\ UNCHANGED <<readers, handled, leaveRequests>>
     ELSE IF WriteOk(s)
     THEN /\ pc' = [pc EXCEPT ![s] = TopPc]
          /\ readers' = [readers EXCEPT ![s] = TopReaders(@)]
          /\ handled' = handled \cup {s}
          /\ leaveRequests' = [leaveRequests EXCEPT ![s] = TopLeaveRequests(@)]
          /\ UNCHANGED <<conn, pending, connections, wg, writeVars>>
     ELSE /\ pc' = [pc EXCEPT ![s] = "welcomeLeave"]
          /\ leaveRequests' = [leaveRequests EXCEPT ![s] = @ + 1]
          /\ UNCHANGED <<readers, handled, conn, pending, connections, wg, writeVars>>
  /\ UNCHANGED <<Nickname, nickname, fullRoomRejection, messageTimestamps, message>>
  /\ UNCHANGED <<ctxDone, listenerClosed, acceptPc, stopPc>>
  /\ UNCHANGED <<roomVars, now, nlines, joined>>
  /\ UNCHANGED histVars
  /\ UNCHANGED <<stopVars, accepted>>

\* NewClient: room.Leave after a failed welcome, then conn.Close and the error return.
WelcomeLeave(s) ==
  /\ pc[s] = "welcomeLeave"
  /\ runPc = "select"
  /\ runPc' = "removeClient"
  /\ runClient' = s
  /\ Returns(s)
  /\ UNCHANGED <<MaxUsers, clients, mu, runMsg, runCaller>>
  /\ UNCHANGED <<Nickname, nickname, fullRoomRejection, messageTimestamps, message, readers>>
  /\ UNCHANGED <<ctxDone, listenerClosed, acceptPc, stopPc>>
  /\ UNCHANGED auxVars
  /\ UNCHANGED histVars
  /\ UNCHANGED <<stopVars, accepted>>

\* A reader goroutine: c.reader.ReadString returns a line, io.EOF or an error.
ReadLine(s, limit) ==
  /\ \E i \in 1..Len(readers[s]) :
       /\ readers[s][i] = "reading"
       /\ \/ /\ conn[s] = "open"
             /\ nlines < limit
             /\ readers' = [readers EXCEPT ![s][i] = "line"]
             /\ nlines' = nlines + 1
          \/ /\ conn[s] = "eof"
             /\ readers' = [readers EXCEPT ![s][i] = "eof"]
             /\ UNCHANGED nlines
          \/ /\ conn[s] = "closed"
             /\ readers' = [readers EXCEPT ![s][i] = "error"]
             /\ UNCHANGED nlines
  /\ UNCHANGED <<pc, conn, Nickname, nickname, fullRoomRejection, messageTimestamps, message,
                 pending>>
  /\ UNCHANGED <<roomVars, serverVars, now, joined, handled, leaveRequests>>
  /\ UNCHANGED histVars
  /\ UNCHANGED <<stopVars, accepted>>
  /\ UNCHANGED writeVars

\* A hand-over after which the goroutine that handed over is still there.
WithoutNone(rs, i) == rs

\* rs without its i-th goroutine, which has handed over its result and ended.
Without(rs, i) == SubSeq(rs, 1, i - 1) \o SubSeq(rs, i + 1, Len(rs))

\* Handle: the inner select takes ctx.Done; Handle returns.
HandleCancelled(s) ==
  /\ pc[s] = "wait"
  /\ ctxDone
  /\ pc' = [pc EXCEPT ![s] = "leave"]
  /\ leaveRequests' = [leaveRequests EXCEPT ![s] = @ + 1]
  /\ UNCHANGED <<conn, Nickname, nickname, fullRoomRejection, messageTimestamps, message,
                 readers, pending>>
  /\ UNCHANGED <<roomVars, serverVars, now, nlines, joined, handled>>
  /\ UNCHANGED histVars
  /\ UNCHANGED <<stopVars, accepted>>
  /\ UNCHANGED writeVars

\* Handle: the inner select receives from readErrorCh; Handle returns, after a
\* system message for an error other than io.EOF.
HandleReadError(s) ==
  /\ pc[s] = "wait"
  /\ \E i \in 1..Len(readers[s]) :
       /\ readers[s][i] \in {"eof", "error"}
       /\ readers' = [readers EXCEPT ![s] = Without(@, i)]
       /\ pending' = IF readers[s][i] = "eof"
                     THEN pending
                     ELSE SendMessage(pending, s,
                            SystemMessage("Error reading message: use of closed network connection", now))
  /\ pc' = [pc EXCEPT ![s] = "leave"]
  /\ leaveRequests' = [leaveRequests EXCEPT ![s] = @ + 1]
  /\ UNCHANGED <<conn, Nickname, nickname, fullRoomRejection, messageTimestamps, message>>
  /\ UNCHANGED <<roomVars, serverVars, now, nlines, joined, handled>>
  /\ UNCHANGED histVars
  /\ UNCHANGED <<stopVars, accepted>>
  /\ UNCHANGED writeVars

ReaderRead(s) == ReadLine(s, MaxLines)

\* A length check that rejects a message of MaxMessageLength characters.
ValidateMessageLengthGe(msg) ==
  IF Len(msg) >= MaxMessageLength THEN "message too long" ELSE ""

\* Client.validateMessageLength: the error it returns, "" for none.
ValidateMessageLength(msg) ==
  IF Len(msg) > MaxMessageLength
  THEN "message too long (max " \o ToString(MaxMessageLength) \o " characters)"
  ELSE ""

\* fmt's %.1f of a duration of d ticks taken in seconds: the nearest tenth of
\* a second (a half is rounded up; with Second = 25 no duration is a half).
Tenths(d) == (20 * d + Second) \div (2 * Second)

FormatTenths(d) == ToString(Tenths(d) \div 10) \o "." \o ToString(Tenths(d) % 10)

\* fmt's %s of a duration of whole seconds: time.Duration.String, "5s".
FormatDuration(d) == ToString(d \div Second) \o "s"

\* The text of checkRateLimit's error for a wait of so many ticks.
RateLimitError(wait) ==
  "rate limit exceeded (max " \o ToString(MessageRateLimit) \o " messages per "
  \o FormatDuration(RateLimitWindow) \o "). Try again in " \o FormatTenths(wait)
  \o " seconds"

\* A rate check that lets one more message through.
CheckRateLimitLoose(ts, t) ==
  LET kept == SelectSeq(Append(ts, t), LAMBDA x : x > t - RateLimitWindow)
  IN [timestamps |-> kept,
      err |-> IF Len(kept) > MessageRateLimit + 1 THEN RateLimitError(0) ELSE ""]

\* A rate check that keeps a timestamp that is exactly one window old.
CheckRateLimitInclusive(ts, t) ==
  LET kept == SelectSeq(Append(ts, t), LAMBDA x : x >= t - RateLimitWindow)
  IN [timestamps |-> kept,
      err |-> IF Len(kept) > MessageRateLimit
              THEN RateLimitError(kept[1] + RateLimitWindow - t)
              ELSE ""]

\* Client.checkRateLimit at time t on the timestamps ts: the timestamps it
\* leaves and the error it returns, "" for none.
CheckRateLimit(ts, t) ==
  LET kept == SelectSeq(Append(ts, t), LAMBDA x : x > t - RateLimitWindow)
  IN [timestamps |-> kept,
      err |-> IF Len(kept) > MessageRateLimit
              THEN RateLimitError(kept[1] + RateLimitWindow - t)
              ELSE ""]

\* Handle's rate check: skipped for a line that starts with "/quit".
RateChecked(ts, msg, t) ==
  IF HasPrefix(msg, QuitPrefix) THEN [timestamps |-> ts, err |-> ""] ELSE CheckRateLimit(ts, t)

\* Client.handleCommand for session s: the system messages it sends to s, the
\* error it returns, where the session goes next and the message it broadcasts.
HandleCommand(s, cmd) ==
  LET parts == SplitN2(cmd)
      command == ToLower(parts[1])
      same == [notices |-> <<>>, err |-> "", next |-> "top", message |-> NoMessage]
  IN CASE command = CmdWho -> [same EXCEPT !.next = "who"]
       [] command = CmdMe ->
            IF Len(parts) < 2 \/ TrimSpace(parts[2]) = <<>>
            THEN [same EXCEPT !.notices = <<"Usage: /me <action>">>,
                              !.err = "invalid /me command usage"]
            ELSE [same EXCEPT !.next = "broadcast",
                              !.message = ActionMessage(Nickname[s], Implode(parts[2]), now)]
       [] command = CmdHelp -> [same EXCEPT !.next = "help"]
       [] command = QuitPrefix ->
            [same EXCEPT !.notices = <<"Goodbye!">>, !.next = "quitClose"]
       [] OTHER ->
            [same EXCEPT !.notices = <<"Unknown command: " \o Implode(command)>>,
                         !.err = "unknown command: " \o Implode(command)]

\* A line processing that runs the rate check before the blank check and the
\* length check.
ProcessLineRateFirst(s, line) ==
  LET msg == TrimSpace(line)
      rate == RateChecked(messageTimestamps[s], msg, now)
      same == [notices |-> <<>>, err |-> "", next |-> "top", message |-> NoMessage,
               timestamps |-> rate.timestamps, passed |-> FALSE]
      tooLong == ValidateMessageLength(msg)
      cmd == HandleCommand(s, msg)
  IN IF rate.err # "" THEN [same EXCEPT !.err = rate.err]
     ELSE IF msg = <<>> THEN same
     ELSE IF tooLong # "" THEN [same EXCEPT !.err = tooLong]
     ELSE IF HasPrefix(msg, Slash)
          THEN [notices |-> cmd.notices, err |-> cmd.err, next |-> cmd.next,
                message |-> cmd.message, timestamps |-> rate.timestamps,
                passed |-> ~HasPrefix(msg, QuitPrefix)]
          ELSE [same EXCEPT !.next = "broadcast",
                            !.message = ChatMessage(Nickname[s], Implode(msg), now),
                            !.passed = TRUE]

\* Handle's processing of one line read for session s.
ProcessLine(s, line) ==
  LET msg == TrimSpace(line)
      same == [notices |-> <<>>, err |-> "", next |-> "top", message |-> NoMessage,
               timestamps |-> messageTimestamps[s], passed |-> FALSE]
      tooLong == ValidateMessageLength(msg)
      rate == RateChecked(messageTimestamps[s], msg, now)
      cmd == HandleCommand(s, msg)
  IN IF msg = <<>> THEN same
     ELSE IF tooLong # "" THEN [same EXCEPT !.err = tooLong]
     ELSE IF rate.err # "" THEN [same EXCEPT !.err = rate.err, !.timestamps = rate.timestamps]
     ELSE IF HasPrefix(msg, Slash)
          THEN [notices |-> cmd.notices, err |-> cmd.err, next |-> cmd.next,
                message |-> cmd.message, timestamps |-> rate.timestamps,
                passed |-> ~HasPrefix(msg, QuitPrefix)]
          ELSE [same EXCEPT !.next = "broadcast",
                            !.message = ChatMessage(Nickname[s], Implode(msg), now),
                            !.timestamps = rate.timestamps,
                            !.passed = TRUE]

\* A Handle that reports no error to its client.
NoNotices(r) == <<>>

\* The system messages handleCommand and Handle send for a processed line.
Notices(r) == IF r.err = "" THEN r.notices ELSE r.notices \o <<"Error: " \o r.err>>

\* Handle: the inner select receives a line from readCh and processes it.
HandleInput(s, lines) ==
  /\ pc[s] = "wait"
  /\ \E i \in 1..Len(readers[s]) :
       /\ readers[s][i] = "line"
       /\ \E line \in lines :
            LET r == ProcessLine(s, ReadString(line)) IN
            /\ pending' = SendSystemMessages(pending, s, Notices(r), now)
            /\ messageTimestamps' = [messageTimestamps EXCEPT ![s] = r.timestamps]
            /\ message' = [message EXCEPT ![s] = r.message]
            /\ accepted' = [accepted EXCEPT ![s] = IF r.passed THEN Append(@, now) ELSE @]
            /\ IF r.next = "top"
               THEN /\ pc' = [pc EXCEPT ![s] = TopPc]
                    /\ readers' = [readers EXCEPT ![s] = TopReaders(Without(@, i))]
                    /\ leaveRequests' = [leaveRequests EXCEPT ![s] = TopLeaveRequests(@)]
               ELSE /\ pc' = [pc EXCEPT ![s] = r.next]
                    /\ readers' = [readers EXCEPT ![s] = Without(@, i)]
                    /\ UNCHANGED leaveRequests
  /\ UNCHANGED <<conn, Nickname, nickname, fullRoomRejection>>
  /\ UNCHANGED <<roomVars, serverVars, now, nlines, joined, handled>>
  /\ UNCHANGED histVars
  /\ UNCHANGED stopVars
  /\ UNCHANGED writeVars

HandleLine(s) == HandleInput(s, HandleLines)

\* handleCommand, "/quit": c.conn.Close() after the farewell was handed to
\* sendSystemMessage.  The writes still waiting for the connection, the
\* farewell among them, and the report of a failed Close, fail from here on.
QuitClose(s) ==
  /\ pc[s] = "quitClose"
  /\ conn' = [conn EXCEPT ![s] = "closed"]
  /\ pending' = [pending EXCEPT ![s] = EmptyBag]
  /\ cmu' = [cmu EXCEPT ![s] = "free"]
  /\ writing' = [writing EXCEPT ![s] = EmptyBag]
  /\ pc' = [pc EXCEPT ![s] = TopPc]
  /\ readers' = [readers EXCEPT ![s] = TopReaders(@)]
  /\ leaveRequests' = [leaveRequests EXCEPT ![s] = TopLeaveRequests(@)]
  /\ UNCHANGED <<Nickname, nickname, fullRoomRejection, messageTimestamps, message>>
  /\ UNCHANGED <<roomVars, serverVars, now, nlines, joined, handled>>
  /\ UNCHANGED histVars
  /\ UNCHANGED <<stopVars, accepted>>

\* Room.Broadcast from Handle or handleCommand: the run loop receives the message.
Broadcast(s) ==
  /\ pc[s] = "broadcast"
  /\ runPc = "select"
  /\ runPc' = "broadcastMessage"
  /\ runMsg' = message[s]
  /\ runCaller' = "run"
  /\ message' = [message EXCEPT ![s] = NoMessage]
  /\ pc' = [pc EXCEPT ![s] = TopPc]
  /\ readers' = [readers EXCEPT ![s] = TopReaders(@)]
  /\ leaveRequests' = [leaveRequests EXCEPT ![s] = TopLeaveRequests(@)]
  /\ UNCHANGED <<MaxUsers, clients, mu, runClient>>
  /\ UNCHANGED <<conn, Nickname, nickname, fullRoomRejection, messageTimestamps, pending>>
  /\ UNCHANGED <<serverVars, now, nlines, joined, handled>>
  /\ UNCHANGED histVars
  /\ UNCHANGED <<stopVars, accepted>>
  /\ UNCHANGED writeVars

\* Room.GetUserList
GetUserList(cl) == DOMAIN cl

\* Client.showUserList: the list is read under RLock and written to the
\* client; a failed write is reported by Handle.
ShowUserList(s) ==
  /\ pc[s] = "who"
  /\ CanRLock(mu)
  /\ CanLockClient(cmu[s])
  /\ pending' = IF WriteOk(s) THEN pending
                ELSE SendMessage(pending, s,
                       SystemMessage("Error: error flushing message: connection closed", now))
  /\ pc' = [pc EXCEPT ![s] = TopPc]
  /\ readers' = [readers EXCEPT ![s] = TopReaders(@)]
  /\ leaveRequests' = [leaveRequests EXCEPT ![s] = TopLeaveRequests(@)]
  /\ UNCHANGED <<conn, Nickname, nickname, fullRoomRejection, messageTimestamps, message>>
  /\ UNCHANGED <<roomVars, serverVars, now, nlines, joined, handled>>
  /\ UNCHANGED histVars
  /\ UNCHANGED <<stopVars, accepted>>
  /\ UNCHANGED writeVars

\* Client.showHelp: the help text is written to the client; a failed write is
\* reported by Handle.
ShowHelp(s) ==
  /\ pc[s] = "help"
  /\ CanLockClient(cmu[s])
  /\ pending' = IF WriteOk(s) THEN pending
                ELSE SendMessage(pending, s,
                       SystemMessage("Error: error flushing message: connection closed", now))
  /\ pc' = [pc EXCEPT ![s] = TopPc]
  /\ readers' = [readers EXCEPT ![s] = TopReaders(@)]
  /\ leaveRequests' = [leaveRequests EXCEPT ![s] = TopLeaveRequests(@)]
  /\ UNCHANGED <<conn, Nickname, nickname, fullRoomRejection, messageTimestamps, message>>
  /\ UNCHANGED <<roomVars, serverVars, now, nlines, joined, handled>>
  /\ UNCHANGED histVars
  /\ UNCHANGED <<stopVars, accepted>>
  /\ UNCHANGED writeVars

\* Handle's deferred room.Leave: the run loop receives the client from
\* r.leave, and handleConnection returns.
Leave(s) ==
  /\ pc[s] = "leave"
  /\ runPc = "select"
  /\ runPc' = "removeClient"
  /\ runClient' = s
  /\ Returns(s)
  /\ UNCHANGED <<MaxUsers, clients, mu, runMsg, runCaller>>
  /\ UNCHANGED <<Nickname, nickname, fullRoomRejection, messageTimestamps, message, readers>>
  /\ UNCHANGED <<ctxDone, listenerClosed, acceptPc, stopPc>>
  /\ UNCHANGED auxVars
  /\ UNCHANGED histVars
  /\ UNCHANGED <<stopVars, accepted>>

\* The write goroutine of sendMessage takes c.mu and starts WriteString and
\* Flush.
Deliver(s) ==
  /\ CanLockClient(cmu[s])
  /\ \E msg \in BagToSet(pending[s]) :
       /\ pending' = [pending EXCEPT ![s] = @ (-) SetToBag({msg})]
       /\ writing' = [writing EXCEPT ![s] = @ (+) SetToBag({msg})]
  /\ cmu' = [cmu EXCEPT ![s] = "locked"]
  /\ UNCHANGED <<pc, conn, Nickname, nickname, fullRoomRejection, messageTimestamps, message,
                 readers>>
  /\ UNCHANGED <<roomVars, serverVars, auxVars>>
  /\ UNCHANGED histVars
  /\ UNCHANGED <<stopVars, accepted>>

\* WriteString and Flush return to the write goroutine, which unlocks c.mu and
\* ends.  The peer decides when: a write to a peer that does not read does not
\* return while the connection is open.
Delivered(s) ==
  /\ \E msg \in BagToSet(writing[s]) :
       writing' = [writing EXCEPT ![s] = @ (-) SetToBag({msg})]
  /\ cmu' = [cmu EXCEPT ![s] = "free"]
  /\ UNCHANGED <<pc, conn, Nickname, nickname, fullRoomRejection, messageTimestamps, message,
                 readers, pending>>
  /\ UNCHANGED <<roomVars, serverVars, auxVars>>
  /\ UNCHANGED histVars
  /\ UNCHANGED <<stopVars, accepted>>

\* The peer closes its end of the connection; the writes still waiting for it fail.
ClientDisconnect(s) ==
  /\ conn[s] = "open"
  /\ conn' = [conn EXCEPT ![s] = "eof"]
  /\ pending' = [pending EXCEPT ![s] = EmptyBag]
  /\ cmu' = [cmu EXCEPT ![s] = "free"]
  /\ writing' = [writing EXCEPT ![s] = EmptyBag]
  /\ UNCHANGED <<pc, Nickname, nickname, fullRoomRejection, messageTimestamps, message,
                 readers>>
  /\ UNCHANGED <<roomVars, serverVars, auxVars>>
  /\ UNCHANGED histVars
  /\ UNCHANGED <<stopVars, accepted>>

\* ---------------------------------------------------------------- Server

\* acceptConnections: the select on ctx.Done with its default.
AcceptSelect ==
  /\ acceptPc \in {"select", "logged"}
  /\ IF ctxDone
     THEN /\ acceptPc' = "done"
          /\ wg' = wg - 1
     ELSE /\ acceptPc' = "accept"
          /\ UNCHANGED wg
  /\ UNCHANGED <<ctxDone, listenerClosed, connections, stopPc>>
  /\ UNCHANGED <<roomVars, clientVars, auxVars>>
  /\ UNCHANGED histVars
  /\ UNCHANGED <<stopVars, accepted>>
  /\ UNCHANGED writeVars

\* acceptConnections: Accept returns a connection; handleConnection is started.
AcceptConn(s) ==
  /\ acceptPc = "accept"
  /\ ~listenerClosed
  /\ pc[s] = "idle"
  /\ \A t \in Sessions : t < s => pc[t] # "idle"
  /\ pc' = [pc EXCEPT ![s] = "register"]
  /\ conn' = [conn EXCEPT ![s] = "open"]
  /\ wg' = wg + 1
  /\ acceptPc' = "select"
  /\ UNCHANGED <<ctxDone, listenerClosed, connections, stopPc>>
  /\ UNCHANGED <<Nickname, nickname, fullRoomRejection, messageTimestamps, message,
                 readers, pending>>
  /\ UNCHANGED <<roomVars, auxVars>>
  /\ UNCHANGED histVars
  /\ UNCHANGED <<stopVars, accepted>>
  /\ UNCHANGED writeVars

\* An accept loop that returns on every error of Accept.
AcceptErrorReturns ==
  /\ acceptPc = "accept"
  /\ acceptPc' = "done"
  /\ wg' = wg - 1
  /\ UNCHANGED <<ctxDone, listenerClosed, connections, stopPc>>
  /\ UNCHANGED <<roomVars, clientVars, auxVars>>
  /\ UNCHANGED histVars
  /\ UNCHANGED <<stopVars, accepted>>
  /\ UNCHANGED writeVars

\* acceptConnections: Accept returns an error (a closed listener, or a passing
\* one).  With the context cancelled the loop returns; otherwise the error is
\* logged and the loop continues at its select.
AcceptError ==
  /\ acceptPc = "accept"
  /\ IF ctxDone
     THEN /\ acceptPc' = "done"
          /\ wg' = wg - 1
     ELSE /\ acceptPc' = "logged"
          /\ UNCHANGED wg
  /\ UNCHANGED <<ctxDone, listenerClosed, connections, stopPc>>
  /\ UNCHANGED <<roomVars, clientVars, auxVars>>
  /\ UNCHANGED histVars
  /\ UNCHANGED <<stopVars, accepted>>
  /\ UNCHANGED writeVars

\* handleConnection: the connection is registered and NewClient begins.
Register(s) ==
  /\ pc[s] = "register"
  /\ connections' = connections \cup {s}
  /\ pc' = [pc EXCEPT ![s] = "readNickname"]
  /\ UNCHANGED <<ctxDone, listenerClosed, wg, acceptPc, stopPc>>
  /\ UNCHANGED <<conn, Nickname, nickname, fullRoomRejection, messageTimestamps, message,
                 readers, pending>>
  /\ UNCHANGED <<roomVars, auxVars>>
  /\ UNCHANGED histVars
  /\ UNCHANGED <<stopVars, accepted>>
  /\ UNCHANGED writeVars

\* Server.Stop: s.cancel()
StopCancel ==
  /\ stopPc = "idle"
  /\ ctxDone' = TRUE
  /\ stopPc' = "close"
  /\ UNCHANGED <<listenerClosed, connections, wg, acceptPc>>
  /\ UNCHANGED <<roomVars, clientVars, auxVars>>
  /\ UNCHANGED histVars
  /\ UNCHANGED <<stopVars, accepted>>
  /\ UNCHANGED writeVars

\* Server.Stop: every registered connection is closed under s.mu, then the listener.
StopClose ==
  /\ stopPc = "close"
  /\ conn' = [s \in Sessions |-> IF s \in connections THEN "closed" ELSE conn[s]]
  /\ pending' = [s \in Sessions |-> IF s \in connections THEN EmptyBag ELSE pending[s]]
  /\ cmu' = [s \in Sessions |-> IF s \in connections THEN "free" ELSE cmu[s]]
  /\ writing' = [s \in Sessions |-> IF s \in connections THEN EmptyBag ELSE writing[s]]
  /\ listenerClosed' = TRUE
  /\ stopPc' = "wait"
  /\ UNCHANGED <<ctxDone, connections, wg, acceptPc>>
  /\ UNCHANGED <<pc, Nickname, nickname, fullRoomRejection, messageTimestamps, message,
                 readers>>
  /\ UNCHANGED <<roomVars, auxVars>>
  /\ UNCHANGED histVars
  /\ UNCHANGED <<stopVars, accepted>>

\* Server.Stop: s.wg.Wait() and the return.
StopWait ==
  /\ stopPc = "wait"
  /\ wg = 0
  /\ stopPc' = "returned"
  /\ UNCHANGED <<ctxDone, listenerClosed, connections, wg, acceptPc>>
  /\ UNCHANGED <<roomVars, clientVars, auxVars>>
  /\ UNCHANGED histVars
  /\ UNCHANGED <<stopVars, accepted>>
  /\ UNCHANGED writeVars

\* ------------------------------------------------------------ the program

\* The steps of the program while Server.Stop has not been called.
Serving ==
  \/ AddClient
  \/ RemoveClient
  \/ BroadcastMessage
  \/ AcceptSelect
  \/ AcceptError
  \/ \E s \in Sessions :
       \/ AcceptConn(s)
       \/ Register(s)
       \/ ReadNickname(s)
       \/ IsNicknameAvailable(s)
       \/ Join(s)
       \/ CheckFull(s)
       \/ WelcomeLeave(s)
       \/ ReaderRead(s)
       \/ HandleReadError(s)
       \/ HandleLine(s)
       \/ QuitClose(s)
       \/ Broadcast(s)
       \/ ShowUserList(s)
       \/ ShowHelp(s)
       \/ Leave(s)
       \/ Deliver(s)
       \/ Delivered(s)
       \/ ClientDisconnect(s)

Next ==
  \/ Serving
  \/ StopCancel
  \/ StopClose
  \/ StopWait
  \/ \E s \in Sessions : HandleCancelled(s)

Spec == Init /\ [][Next]_vars

\* The steps of the run loop, of the server's own goroutines and of session
\* s's goroutines that need nothing from outside the program: the Go scheduler
\* runs each of them if it stays runnable.  Connections arriving, lines and
\* disconnects of the peers and the call of Server.Stop are not among them.
RunStep == AddClient \/ RemoveClient \/ BroadcastMessage

ServerStep == AcceptSelect \/ StopClose \/ StopWait

SessionStep(s) ==
  \/ Register(s)
  \/ IsNicknameAvailable(s)
  \/ Join(s)
  \/ CheckFull(s)
  \/ WelcomeLeave(s)
  \/ HandleCancelled(s)
  \/ HandleReadError(s)
  \/ HandleLine(s)
  \/ QuitClose(s)
  \/ Broadcast(s)
  \/ ShowUserList(s)
  \/ ShowHelp(s)
  \/ Leave(s)
  \/ Deliver(s)

FairSpec ==
  /\ Spec
  /\ WF_vars(RunStep)
  /\ WF_vars(ServerStep)
  /\ \A s \in Sessions : WF_vars(SessionStep(s))

\* ------------------------------------------ the line checks of one session

\* time.Now() advances.
Tick ==
  /\ now < MaxTime * Second
  /\ now' = now + TickSeconds * Second
  /\ UNCHANGED <<roomVars, clientVars, serverVars, histVars, writeVars>>
  /\ UNCHANGED <<nlines, joined, handled, leaveRequests>>
  /\ UNCHANGED <<stopVars, accepted>>

\* Session 1, nickname "a", is at the select of Handle's loop with its first
\* reader started, the other session not yet connected.  With MaxUsers = 1 it
\* is the member, the run loop inside the broadcastMessage of its addClient;
\* with MaxUsers = 0 its Handle started before addClient rejected it, and the
\* room-full message has been written to it.
LineInit ==
  /\ MaxUsers \in 0..MaxCapacity
  /\ clients = IF MaxUsers = 0 THEN <<>> ELSE [n \in {"a"} |-> 1]
  /\ mu = IF MaxUsers = 0 THEN "free" ELSE "locked"
  /\ runPc = IF MaxUsers = 0 THEN "select" ELSE "broadcastMessage"
  /\ runClient = IF MaxUsers = 0 THEN 0 ELSE 1
  /\ runMsg = IF MaxUsers = 0 THEN NoMessage ELSE SystemMessage("a has joined the room", 0)
  /\ runCaller = IF MaxUsers = 0 THEN "run" ELSE "addClient"
  /\ pc = [s \in Sessions |-> IF s = 1 THEN "wait" ELSE "idle"]
  /\ conn = [s \in Sessions |-> IF s = 1 THEN "open" ELSE "none"]
  /\ Nickname = [s \in Sessions |-> IF s = 1 THEN "a" ELSE ""]
  /\ nickname = [s \in Sessions |-> ""]
  /\ fullRoomRejection = [s \in Sessions |-> s = 1 /\ MaxUsers = 0]
  /\ messageTimestamps = [s \in Sessions |-> <<>>]
  /\ message = [s \in Sessions |-> NoMessage]
  /\ readers = [s \in Sessions |-> IF s = 1 THEN <<"reading">> ELSE <<>>]
  /\ pending = [s \in Sessions |-> EmptyBag]
  /\ cmu = [s \in Sessions |-> "free"]
  /\ writing = [s \in Sessions |-> EmptyBag]
  /\ ctxDone = FALSE
  /\ listenerClosed = FALSE
  /\ connections = {1}
  /\ wg = 2
  /\ acceptPc = "select"
  /\ stopPc = "idle"
  /\ now = 0
  /\ nlines = 0
  /\ joined = IF MaxUsers = 0 THEN {} ELSE {1}
  /\ handled = {1}
  /\ leaveRequests = [s \in Sessions |-> 0]
  /\ dispatched = [s \in Sessions |->
                     IF s = 1 /\ MaxUsers = 0
                     THEN <<SystemMessage("Sorry, the room is full. Try again later.", 0)>>
                     ELSE <<>>]
  /\ broadcasts = 0
  /\ rctxDone = FALSE
  /\ roomStopPc = "idle"
  /\ inflight = [s \in Sessions |-> "none"]
  /\ accepted = [s \in Sessions |-> <<>>]

\* The session types up to MaxRateLines lines of RateLines while time passes.
LineNext ==
  \/ Tick
  \/ BroadcastMessage
  \/ \E s \in Sessions :
       \/ ReadLine(s, MaxRateLines)
       \/ HandleInput(s, RateLines)
       \/ Broadcast(s)
       \/ QuitClose(s)

LineSpec == LineInit /\ [][LineNext]_vars

\* The session of LineInit types up to MaxCmdLines lines of CmdLines within
\* one second.
CmdNext ==
  \/ BroadcastMessage
  \/ \E s \in Sessions :
       \/ ReadLine(s, MaxCmdLines)
       \/ HandleInput(s, CmdLines)
       \/ Broadcast(s)

CmdSpec == LineInit /\ [][CmdNext]_vars

\* time.Now() between two lines of the specification of the reported wait:
\* the clock has moved by one second or by one tick less than the window, and
\* the run lasts one window.
WaitSteps == {Second, RateLimitWindow - 1}

WaitLines == { <<"h", "i">> }

WaitTick ==
  /\ \E d \in WaitSteps :
       /\ now + d <= RateLimitWindow
       /\ now' = now + d
  /\ UNCHANGED <<roomVars, clientVars, serverVars, histVars, writeVars>>
  /\ UNCHANGED <<nlines, joined, handled, leaveRequests>>
  /\ UNCHANGED <<stopVars, accepted>>

\* The session of LineInit types up to MaxWaitLines lines "hi" while the clock
\* moves in steps of WaitSteps.
WaitNext ==
  \/ WaitTick
  \/ BroadcastMessage
  \/ \E s \in Sessions :
       \/ ReadLine(s, MaxWaitLines)
       \/ HandleInput(s, WaitLines)
       \/ Broadcast(s)

WaitSpec == LineInit /\ [][WaitNext]_vars

\* The lines of the specification of the dropped lines: a chat line, a blank
\* line, a line that is too long once trimmed.
BudgetLines ==
  { <<"h", "i">>,
    <<" ", "\t">>,
    <<" ">> \o Repeat("y", MaxMessageLength + 1) }

\* The session of LineInit types up to MaxRateLines lines of BudgetLines while
\* time passes.
BudgetNext ==
  \/ Tick
  \/ BroadcastMessage
  \/ \E s \in Sessions :
       \/ ReadLine(s, MaxRateLines)
       \/ HandleInput(s, BudgetLines)
       \/ Broadcast(s)

BudgetSpec == LineInit /\ [][BudgetNext]_vars

\* --------------------------------------------------- Room.Stop is called

\* The calls that hand a request to the run loop: Room.Join, Room.Leave (from
\* NewClient and from Handle's defer) and Room.Broadcast.
Handoffs == {"join", "welcomeLeave", "leave", "broadcast"}

\* Room.Stop: r.cancel(); Stop then waits at <-r.done.
RoomStopCancel ==
  /\ roomStopPc = "idle"
  /\ roomStopPc' = "wait"
  /\ rctxDone' = TRUE
  /\ inflight' = [s \in Sessions |-> IF pc[s] \in Handoffs THEN pc[s] ELSE "none"]
  /\ UNCHANGED <<roomVars, clientVars, serverVars, auxVars, histVars, writeVars, accepted>>

\* Room.run: the select takes <-r.ctx.Done(), whatever else is ready, and run
\* returns; its defer closes r.done.
RunExit ==
  /\ runPc = "select"
  /\ rctxDone
  /\ runPc' = "exited"
  /\ UNCHANGED <<MaxUsers, clients, mu, runClient, runMsg, runCaller>>
  /\ UNCHANGED <<clientVars, serverVars, auxVars, histVars, writeVars, stopVars, accepted>>

\* Room.Stop: <-r.done returns, the three channels are closed, Stop returns.
RoomStopReturn ==
  /\ roomStopPc = "wait"
  /\ runPc = "exited"
  /\ roomStopPc' = "returned"
  /\ UNCHANGED <<rctxDone, inflight>>
  /\ UNCHANGED <<roomVars, clientVars, serverVars, auxVars, histVars, writeVars, accepted>>

\* A send on a closed channel panics, in a goroutine blocked in the send as in
\* one that sends later; nothing in handleConnection recovers.
SendPanics(s) ==
  /\ pc[s] \in Handoffs
  /\ roomStopPc = "returned"
  /\ pc' = [pc EXCEPT ![s] = "panic"]
  /\ UNCHANGED <<conn, Nickname, nickname, fullRoomRejection, messageTimestamps,
                 message, readers, pending>>
  /\ UNCHANGED <<roomVars, serverVars, auxVars, histVars, writeVars, stopVars, accepted>>

\* The serving program with a host that calls Room.Stop.
RoomNext ==
  \/ Serving
  \/ RoomStopCancel
  \/ RunExit
  \/ RoomStopReturn
  \/ \E s \in Sessions : SendPanics(s)

RoomSpec == Init /\ [][RoomNext]_vars

\* ------------------------------------------------------------ properties

\* Room.run returns only on r.ctx.Done(), and r.cancel is called by Room.Stop
\* alone, which nothing in the program calls: the loop is running in every state.
RunRunning == runPc \in {"select", "addClient", "removeClient", "broadcastMessage"}

\* The run loop finishes addClient, removeClient, or a Broadcast request.
AddClientStep == runPc = "addClient" /\ runPc' # "addClient"
RemoveClientStep == runPc = "removeClient" /\ runPc' # "removeClient"
BroadcastStep == runPc = "broadcastMessage" /\ runCaller = "run" /\ runPc' = "select"

\* Session s has been sent, by the run loop, a message with this content.
WasDispatched(s, content) ==
  \E i \in 1..Len(dispatched[s]) : dispatched[s][i].Content = content

\* C1: in every reachable state the membership map holds at most MaxUsers
\* entries, and a Join the run loop processes while the map holds MaxUsers
\* entries is rejected: the map is unchanged and the session is not added.
C1_Capacity ==
  /\ [](Cardinality(DOMAIN clients) <= MaxUsers)
  /\ [][(AddClientStep /\ Cardinality(DOMAIN clients) >= MaxUsers)
          => (clients' = clients /\ joined' = joined /\ fullRoomRejection'[runClient])]_vars

\* A session was rejected by a room that holds MaxUsers entries.
C1_Witness ==
  \E s \in Sessions :
    /\ fullRoomRejection[s]
    /\ s \notin Recipients(clients)
    /\ Cardinality(DOMAIN clients) = MaxUsers

\* C2: of two sessions that negotiate the same nickname N at the same time
\* only one gets N: while one is a member under N, no other session has had N
\* accepted by the availability check (it was told 'taken' and chose again).
C2_OneHolder ==
  \A s, t \in Sessions :
    (s # t /\ s \in joined) => Nickname[t] # Nickname[s]

\* C3: a nickname is a key of the membership map if and only if the session
\* holding it was admitted by a Join and not yet removed by its Leave, and the
\* entry under that key is that very session.
C3_MapIsMembers ==
  /\ DOMAIN clients = {Nickname[s] : s \in joined}
  /\ \A s \in joined : clients[Nickname[s]] = s

\* One session is a member under its nickname while another, which has chosen
\* a different nickname, is not and its nickname is no key.
C3_Witness ==
  \E s, t \in Sessions :
    /\ s \in joined /\ clients[Nickname[s]] = s
    /\ t \notin joined /\ Nickname[t] # "" /\ Nickname[t] \notin DOMAIN clients

C5_RejectedNeverHandled ==
  \A s \in Sessions : fullRoomRejection[s] => s \notin handled

\* C6: for every admitted session, however its Handle ends, Room.Leave is
\* requested exactly once and the session is eventually absent from the
\* membership map.
C6_LeaveRemoves ==
  /\ [](\A s \in Sessions : leaveRequests[s] <= 1)
  /\ \A s \in Sessions :
       (s \in joined /\ s \in handled /\ pc[s] \in {"leave", "done"}) ~> (s \notin joined)

C8_JoinAnnounced ==
  \A s \in Sessions :
    (s \in joined) ~>
      (\A t \in Recipients(clients) : WasDispatched(t, Nickname[s] \o " has joined the room"))

\* Once the map has an entry the run loop is inside broadcastMessage, waiting
\* for the read lock of the mutex it has write-locked, and no session has ever
\* been handed more than the one message of a rejected Join.
MemberStopsRun ==
  /\ clients # <<>> => (runPc = "broadcastMessage" /\ mu = "locked")
  /\ \A s \in Sessions : Len(dispatched[s]) <= 1
  /\ \A s \in Recipients(clients) : dispatched[s] = <<>>

\* C10: when Server.Stop has returned, Room.run has exited.
C10_StopWaitsForRun == stopPc = "returned" => ~RunRunning

\* C11: once Server.Stop is called, every connection the server has accepted
\* is closed by the time Stop has closed the connections and the listener, and
\* Stop returns.
C11_StopCompletes ==
  /\ [](stopPc \in {"wait", "returned"} => \A s \in Sessions : conn[s] # "open")
  /\ (stopPc # "idle") ~> (stopPc = "returned")

\* C12: when Server.Stop has returned, no reader goroutine of a session's
\* Handle is blocked for ever: none holds a line or an error it can hand to
\* nobody, its Handle having returned.
C12_NoLeakedReader ==
  stopPc = "returned" =>
    \A s \in Sessions : \A i \in 1..Len(readers[s]) : readers[s][i] = "reading"

\* The candidates of NickLines that requestNickname must refuse, as the
\* strings they would be stored as.
ReservedNicknames ==
  {Implode(TrimSpace(ReadString(l))) :
     l \in {x \in NickLines : \/ TrimSpace(ReadString(x)) = <<>>
                              \/ ToLower(TrimSpace(ReadString(x))) = SystemLower}}

\* C16: no session gets past the nickname negotiation, and no key of the
\* membership map exists, with a nickname that is empty after trimming or
\* equal to "system" ignoring case; such a candidate leaves the session at the
\* prompt, whatever was tried before.
C16_NicknameValid ==
  /\ [](/\ DOMAIN clients \cap ReservedNicknames = {}
        /\ \A s \in Sessions :
             (s \in handled \/ pc[s] \in {"join", "checkFull", "welcomeLeave"})
               => Nickname[s] \notin ReservedNicknames)
  /\ [][\A s \in Sessions :
          (pc[s] = "readNickname" /\ pc'[s] # "done" /\ nickname'[s] \in ReservedNicknames)
            => pc'[s] = "readNickname"]_vars

\* A session is back at the prompt after trying a spelling of "system", while
\* another is a member under a nickname that is allowed.
C16_Witness ==
  \E s, t \in Sessions :
    /\ pc[s] = "readNickname" /\ nickname[s] \in ReservedNicknames \ {""}
    /\ t \in joined /\ Nickname[t] \in DOMAIN clients

\* Session s's own goroutine writes to its connection through Client.write in
\* this step: the prompt, the welcome, the user list or the help text.
SelfWrite(s) ==
  \/ ReadNickname(s) /\ conn[s] = "open"
  \/ CheckFull(s) /\ ~fullRoomRejection[s]
  \/ ShowUserList(s)
  \/ ShowHelp(s)

\* C19: for each session at most one goroutine at a time is inside the
\* write-and-flush section on its connection: no two deliveries of sendMessage
\* are inside together, and a write of Client.write happens only while no
\* delivery is inside.
C19_WritesSerialized ==
  /\ [](\A s \in Sessions : BagCardinality(writing[s]) <= 1)
  /\ [][\A s \in Sessions : SelfWrite(s) => writing[s] = EmptyBag]_vars

\* A delivery is inside the section of a session whose own goroutine is
\* waiting to write the help text or the user list.
C19_Witness ==
  \E s \in Sessions :
    /\ BagCardinality(writing[s]) = 1 /\ cmu[s] = "locked"
    /\ pc[s] \in {"help", "who"}

\* The run loop never waits for a client's write: whatever the state of the
\* clients' write locks, a Broadcast request it has received can be processed
\* at once.
WriteNeverStopsRun ==
  (runPc = "broadcastMessage" /\ runCaller = "run") => ENABLED BroadcastMessage

\* C20: while the write of a delivery to one member does not complete, its
\* goroutine holding that session's write lock, the run loop still goes on to
\* receive the Join, Leave and Broadcast requests the sessions make.
C20_BlockedWriteHarmless ==
  \A s, t \in Sessions :
    (/\ s \in joined /\ writing[s] # EmptyBag
     /\ pc[t] \in {"join", "leave", "welcomeLeave", "broadcast"})
      ~> (pc[t] \notin {"join", "leave", "welcomeLeave", "broadcast"})

\* C17: a "/me x" line of a member makes one Broadcast request for an action
\* message with the member as author and x as body, and the message is
\* delivered to the members, the author included, written as "* <author> x".
C17_ActionDelivered ==
  /\ [](\A s \in Sessions :
          (pc[s] = "broadcast" /\ message[s].IsAction)
            => message[s] = ActionMessage(Nickname[s], message[s].Content, message[s].Timestamp))
  /\ \A s \in Sessions :
       (s \in joined /\ pc[s] = "broadcast" /\ message[s].IsAction)
         ~> (\E msg \in BagToSet(writing[s]) :
               Formatted(Nickname[s], msg) = FormatActionMessage(Nickname[s], "x"))

\* C18: a "/who" line of a member is answered: the member's showUserList
\* reads the membership map and writes the list to the member's connection,
\* changing neither the map nor what any session has been handed.
C18_WhoAnswered ==
  /\ [][\A s \in Sessions : ShowUserList(s) =>
          (clients' = clients /\ dispatched' = dispatched /\ broadcasts' = broadcasts
           /\ \A t \in Sessions \ {s} : pending'[t] = pending[t])]_vars
  /\ \A s \in Sessions : (s \in joined /\ pc[s] = "who") ~> (pc[s] # "who")

\* The timestamps of ts that checkRateLimit keeps at time t.
InWindow(ts, t) == {i \in 1..Len(ts) : ts[i] > t - RateLimitWindow}

IsRateLimitError(err) == \E w \in 0..RateLimitWindow : err = RateLimitError(w)

\* The line is dispatched by handleCommand as the quit command.
IsQuitCommand(line) ==
  LET msg == TrimSpace(ReadString(line))
  IN HasPrefix(msg, Slash) /\ ToLower(SplitN2(msg)[1]) = QuitPrefix

\* The line reaches Handle's rate check.
IsRateChecked(line) ==
  LET msg == TrimSpace(ReadString(line))
  IN msg # <<>> /\ ValidateMessageLength(msg) = "" /\ ~HasPrefix(msg, QuitPrefix)

C14_QuitExempt ==
  \A s \in Sessions : \A line \in RateLines :
    (pc[s] = "wait" /\ IsQuitCommand(line)) => ~IsRateLimitError(ProcessLine(s, ReadString(line)).err)

LineInitMember == LineInit /\ MaxUsers = 1
LineInitRejected == LineInit /\ MaxUsers = 0

\* C21: every Join, Leave or Broadcast call that was blocked handing its
\* request to the run loop when Room.Stop was called has been received by the
\* loop when the loop has exited, and Room.Stop returns only after the exit.
C21_StopDrains ==
  /\ runPc = "exited" => \A s \in Sessions : inflight[s] = "none" \/ pc[s] # inflight[s]
  /\ roomStopPc = "returned" => runPc = "exited"

\* C22: the run loop receives a chat or action message from Room.Broadcast
\* only when its author is a member of the room at that moment.
C22_MembersBroadcast ==
  [][\A s \in Sessions : Broadcast(s) => s \in joined]_vars

\* The errors Handle reports and goes on: too long, rate limit, "/me" without
\* text, unknown command.
LocalErrors ==
  {"message too long (max 1000 characters)", "invalid /me command usage"}
    \cup {RateLimitError(w) : w \in 0..RateLimitWindow}
    \cup {"unknown command: " \o Implode(ToLower(SplitN2(l)[1])) : l \in CmdLines}

\* C23: a line that gets one of the local errors is answered with that error
\* to its own session alone: no Message is built and no Broadcast request
\* made, nothing is handed to another session, the membership map is
\* unchanged, and the session reads its next line.
C23_LocalErrors ==
  /\ [](\A s \in Sessions : \A line \in CmdLines :
          LET r == ProcessLine(s, ReadString(line))
          IN (pc[s] = "wait" /\ r.err # "") =>
               /\ r.err \in LocalErrors
               /\ Notices(r) # <<>> /\ Notices(r)[Len(Notices(r))] = "Error: " \o r.err
               /\ r.message = NoMessage /\ r.next = "top")
  /\ [][\A s \in Sessions :
          (HandleInput(s, CmdLines)
           /\ \E e \in LocalErrors :
                LET notice == SystemMessage("Error: " \o e, now)
                IN CopiesIn(notice, pending'[s]) > CopiesIn(notice, pending[s]))
            => /\ clients' = clients /\ joined' = joined /\ conn' = conn
               /\ runPc' = runPc /\ runMsg' = runMsg /\ message'[s] = NoMessage
               /\ dispatched' = dispatched /\ broadcasts' = broadcasts
               /\ \A t \in Sessions \ {s} : pending'[t] = pending[t]
               /\ pc'[s] = "wait" /\ readers'[s][Len(readers'[s])] = "reading"]_vars

\* A session has been told each of the four errors and waits for its next line.
C23_Witness ==
  \E s \in Sessions :
    /\ pc[s] = "wait" /\ conn[s] = "open"
    /\ SystemMessage("Error: message too long (max 1000 characters)", now)
         \in BagToSet(pending[s])
    /\ SystemMessage("Error: invalid /me command usage", now) \in BagToSet(pending[s])
    /\ \E w \in 0..RateLimitWindow :
         SystemMessage("Error: " \o RateLimitError(w), now) \in BagToSet(pending[s])
    /\ \E msg \in BagToSet(pending[s]) :
         Len(msg.Content) = Len("Error: unknown command: ") + MaxMessageLength

\* C24: after receiving a Join, Leave or Broadcast request the run loop
\* returns to its select, and a session's call of IsNicknameAvailable or
\* GetUserList returns: the session gets past it, or is held up only by a
\* write to its own connection.
C24_RunReturns ==
  /\ (runPc # "select") ~> (runPc = "select")
  /\ \A s \in Sessions :
       (pc[s] \in {"isAvailable", "who"})
         ~> (pc[s] \notin {"isAvailable", "who"} \/ cmu[s] = "locked")

\* The run loop starts removeClient only with an empty map: a Leave is
\* received only while the loop is at its select, and with a member in the
\* map the loop is not.
RemoveOnlyEmpty == runPc = "removeClient" => clients = <<>>

\* C26: when handleCommand closes the connection for "/quit", the farewell
\* has been written to it: it is neither waiting for the client's write lock
\* nor in the middle of its write.
C26_FarewellBeforeClose ==
  [][\A s \in Sessions :
       QuitClose(s) => \A msg \in BagToSet(pending[s] (+) writing[s]) : msg.Content # "Goodbye!"]_vars

\* C27: every Message handed to Room.Broadcast or to a session's sendMessage
\* has a body of at most MaxMessageLength characters.
C27_BodyLength ==
  /\ Len(runMsg.Content) <= MaxMessageLength
  /\ \A s \in Sessions :
       /\ Len(message[s].Content) <= MaxMessageLength
       /\ \A msg \in BagToSet(pending[s] (+) writing[s]) : Len(msg.Content) <= MaxMessageLength
       /\ \A i \in 1..Len(dispatched[s]) : Len(dispatched[s][i].Content) <= MaxMessageLength


\* C28: when the welcome write of an admitted session fails, NewClient's
\* room.Leave is taken by the control loop and NewClient returns: the session
\* ends out of the membership map, Handle is never run for it, and Leave is
\* requested for it exactly once.
C28_WelcomeFailureLeaves ==
  /\ [](\A s \in Sessions :
          pc[s] = "welcomeLeave" => (s \notin handled /\ leaveRequests[s] = 1))
  /\ \A s \in Sessions :
       (pc[s] = "welcomeLeave" /\ s \in joined)
         ~> (pc[s] = "done" /\ ~Exists(clients, Nickname[s]) /\ s \notin handled
             /\ leaveRequests[s] = 1)


\* C29: when the control loop rejects a Join because the room is full, the
\* membership map is unchanged, the loop goes back to its select without
\* dispatching a 'has joined' notice (only the rejected session is sent the
\* room-full notice), and no step of the loop changes a connection: the
\* rejected session's connection is closed by NewClient.
C29_RejectionFrame ==
  /\ [][(AddClientStep /\ Cardinality(DOMAIN clients) >= MaxUsers)
          => /\ clients' = clients
             /\ runPc' = "select"
             /\ broadcasts' = broadcasts
             /\ dispatched'[runClient] =
                  Append(dispatched[runClient],
                         SystemMessage("Sorry, the room is full. Try again later.", now))
             /\ \A t \in Sessions \ {runClient} :
                  dispatched'[t] = dispatched[t] /\ pending'[t] = pending[t]
             /\ conn' = conn
             /\ connections' = connections]_vars
  /\ [][RunStep => conn' = conn]_vars
  /\ [][\A s \in Sessions :
          (CheckFull(s) /\ fullRoomRejection[s]) => conn'[s] = "closed"]_vars
  /\ [](\A s \in Sessions :
          fullRoomRejection[s]
            => \A t \in Sessions : ~WasDispatched(t, Nickname[s] \o " has joined the room"))

\* The loop has rejected a session and is back at its select; the session
\* holds the room-full notice and its connection is still open.
C29_Witness ==
  \E s \in Sessions :
    /\ fullRoomRejection[s]
    /\ pc[s] = "checkFull"
    /\ runPc = "select"
    /\ conn[s] = "open"
    /\ WasDispatched(s, "Sorry, the room is full. Try again later.")
    /\ clients = << >>


\* C30: the rate-limit window holds only the timestamps of accepted lines, and
\* a rate-checked line is rejected exactly when at least MessageRateLimit
\* lines accepted before it lie within the trailing RateLimitWindow seconds.
C30_WindowOfAccepted ==
  \A s \in Sessions :
    /\ Cardinality(InWindow(messageTimestamps[s], now))
         = Cardinality(InWindow(accepted[s], now))
    /\ \A line \in RateLines :
         LET r == ProcessLine(s, ReadString(line))
         IN (pc[s] = "wait" /\ IsRateChecked(line) /\ ~IsQuitCommand(line)) =>
              (IsRateLimitError(r.err)
                 <=> Cardinality(InWindow(accepted[s], now)) >= MessageRateLimit)


\* The timestamps a rate check at time t retains lie strictly within the
\* trailing window, end with t and are in non-decreasing order.
RetainedInOrder(kept, t) ==
  /\ Len(kept) >= 1
  /\ kept[Len(kept)] = t
  /\ \A i \in 1..Len(kept) : kept[i] > t - RateLimitWindow /\ kept[i] <= t
  /\ \A i \in 1..Len(kept) : \A j \in i..Len(kept) : kept[i] <= kept[j]

\* C31 as stated: whenever a line is rate-limited, the wait the client is told
\* is that of the oldest retained timestamp (oldest + window - now), strictly
\* greater than 0 and at most 5 seconds; the retained timestamps lie strictly
\* within the trailing window, in non-decreasing order.
C31_WaitReported ==
  \A s \in Sessions :
    LET r == CheckRateLimit(messageTimestamps[s], now)
        wait == r.timestamps[1] + RateLimitWindow - now
    IN pc[s] = "wait" =>
         /\ RetainedInOrder(r.timestamps, now)
         /\ r.err # "" =>
              /\ r.err = RateLimitError(wait)
              /\ Tenths(wait) > 0
              /\ Tenths(wait) <= 10 * (RateLimitWindow \div Second)

\* C31 amended: whenever a line is rate-limited, the wait computed is that of
\* the oldest retained timestamp, strictly greater than 0 and at most the
\* window, and the client is told it rounded to a tenth of a second, a figure
\* from 0.0 to 5.0; a line is rate-limited exactly when more than
\* MessageRateLimit timestamps are retained; the retained timestamps lie
\* strictly within the trailing window, in non-decreasing order.
C31_WaitRounded ==
  \A s \in Sessions :
    LET r == CheckRateLimit(messageTimestamps[s], now)
        wait == r.timestamps[1] + RateLimitWindow - now
    IN pc[s] = "wait" =>
         /\ RetainedInOrder(r.timestamps, now)
         /\ (r.err # "") <=> (Len(r.timestamps) > MessageRateLimit)
         /\ r.err # "" =>
              /\ wait > 0
              /\ wait <= RateLimitWindow
              /\ r.err = RateLimitError(wait)
              /\ 2 * Second * Tenths(wait) - 20 * wait \in (-Second)..Second
              /\ Tenths(wait) \in 0..(10 * (RateLimitWindow \div Second))

\* A line was rate-limited one tick before the oldest retained timestamp left
\* the window, and the session was told to wait 0.0 seconds.
C31_Witness ==
  \E s \in Sessions :
    /\ Len(messageTimestamps[s]) > MessageRateLimit
    /\ messageTimestamps[s][1] + RateLimitWindow - now = 1
    /\ messageTimestamps[s][Len(messageTimestamps[s])] = now
    /\ \E msg \in BagToSet(pending[s]) :
         /\ msg.Timestamp = now
         /\ msg.Content = "Error: " \o RateLimitError(1)
         /\ msg.Content = "Error: rate limit exceeded (max 5 messages per 5s). Try again in 0.0 seconds"


\* A step of the accept loop that starts handleConnection for a session.
Spawns(s) == pc[s] = "idle" /\ pc'[s] # "idle"

\* C32: an error of Accept while the context is not cancelled leaves the
\* accept loop running (it logs and goes back to its select, from where it
\* accepts again); an error of Accept with the context cancelled makes the loop
\* return; the loop returns only with the context cancelled, and once it has
\* returned it starts no session.
C32_AcceptErrors ==
  /\ [][(AcceptError /\ ~ctxDone) => (acceptPc' = "logged" /\ wg' = wg)]_vars
  /\ [][(AcceptError /\ ctxDone) => (acceptPc' = "done" /\ wg' = wg - 1)]_vars
  /\ [][(acceptPc = "logged" /\ acceptPc' # "logged")
          => acceptPc' = IF ctxDone THEN "done" ELSE "accept"]_vars
  /\ [](acceptPc = "done" => ctxDone)
  /\ [][acceptPc = "done"
          => (acceptPc' = "done" /\ \A s \in Sessions : ~Spawns(s))]_vars
  /\ [][\A s \in Sessions :
          Spawns(s) => (acceptPc = "accept" /\ ~listenerClosed /\ acceptPc' = "select")]_vars

\* Accept has failed with the context not cancelled; the loop is still
\* running, one session has been started and another can still connect.
C32_Witness ==
  /\ acceptPc = "logged"
  /\ ~ctxDone
  /\ ~listenerClosed
  /\ \E s \in Sessions : pc[s] \notin {"idle", "done"}
  /\ \E s \in Sessions : pc[s] = "idle"


\* The lines that Handle drops before its rate check: blank after trimming,
\* or longer than MaxMessageLength after trimming.
IsBlankOrTooLong(line) ==
  LET msg == TrimSpace(ReadString(line))
  IN msg = <<>> \/ Len(msg) > MaxMessageLength

\* C33: a blank line and a line rejected as too long consume no rate-limit
\* budget: processing one leaves the session's timestamp window as it was and
\* is answered by no rate-limit error, whatever the window holds.
C33_NoBudget ==
  /\ [](\A s \in Sessions : \A line \in BudgetLines :
          (pc[s] = "wait" /\ IsBlankOrTooLong(line)) =>
            LET r == ProcessLine(s, ReadString(line))
            IN /\ r.timestamps = messageTimestamps[s]
               /\ ~r.passed
               /\ ~IsRateLimitError(r.err)
               /\ r.next = "top")
  /\ [][\A s \in Sessions :
          HandleInput(s, {line \in BudgetLines : IsBlankOrTooLong(line)})
            => (messageTimestamps' = messageTimestamps /\ accepted' = accepted)]_vars

\* A session that has used its whole budget (MessageRateLimit lines within the
\* window) has had a too-long line rejected after them, a blank line was
\* dropped, and the window holds only the timestamps of the accepted lines.
C33_Witness ==
  \E s \in Sessions :
    /\ pc[s] = "wait"
    /\ readers[s] = <<"reading">>
    /\ Len(messageTimestamps[s]) = MessageRateLimit
    /\ nlines = Len(messageTimestamps[s]) + 2
    /\ \E msg \in BagToSet(pending[s]) :
         /\ msg.Content = "Error: message too long (max 1000 characters)"
         /\ msg.Timestamp = now
         /\ CopiesIn(msg, pending[s]) = 1
    /\ \A i \in 1..Len(messageTimestamps[s]) :
         messageTimestamps[s][i] < now /\ messageTimestamps[s][i] > now - RateLimitWindow


\* A step in which Handle starts a reader goroutine for session s.
ReadStarted(s) ==
  /\ readers'[s] # readers[s]
  /\ Len(readers'[s]) >= 1
  /\ readers'[s][Len(readers'[s])] = "reading"

\* C34: a session never has more than one reader goroutine, and Handle starts
\* one only when the session has none or in the very step that takes the line
\* of the previous one from readCh; so no two reads run on one connection.
C34_OneReader ==
  /\ [](\A s \in Sessions : Len(readers[s]) <= 1)
  /\ [][\A s \in Sessions :
          ReadStarted(s) => /\ readers[s] \in {<< >>, <<"line">>}
                            /\ readers'[s] = <<"reading">>
                            /\ s \in handled']_vars

\* A session in Handle has had a line taken from its first reader goroutine
\* and processed (the unknown command "/x"), and its second one is reading.
C34_Witness ==
  \E s \in Sessions :
    /\ pc[s] = "wait"
    /\ conn[s] = "open"
    /\ readers[s] = <<"reading">>
    /\ nlines >= 1
    /\ \E msg \in BagToSet(pending[s] (+) writing[s]) :
         msg.Content = "Error: unknown command: /x"

====
